---- MODULE Spec2Model ----
(***************************************************************************)
(* NibbleCheck-Mobile: the request layer of src/src/api.ts.                *)
(*                                                                         *)
(* The four entry operations (classifyImageAsync, resolveTextAsync,        *)
(* checkBarcodeAsync, resolveTokensAsync) each start one fetch under       *)
(* withAbortController, read the body of the response and normalise it.    *)
(* A call is modelled as a small state machine,                            *)
(*     idle -> fetching -> body -> done,                                   *)
(* whose steps are the event-loop turns of the call: the call itself, the  *)
(* deadline timer firing, the fetch promise settling, the body promise     *)
(* settling (after which the rest of the function runs synchronously).     *)
(*                                                                         *)
(* JavaScript values are tagged records [t |-> typeof-like tag, v |-> ..]. *)
(*                                                                         *)
(* Time is not measured: an armed deadline timer (60 s, or 120 s for the   *)
(* image upload) may fire at any moment before it is cleared.  After the   *)
(* timer callback has called controller.abort() the fetch promise rejects  *)
(* with an AbortError in a later step: abort() only signals the request.   *)
(* An aborted request never resolves.                                      *)
(*                                                                         *)
(* The App component (src/unnamed/part_000) is modelled over these calls:  *)
(* its useState fields are variables, and each handler is one action per   *)
(* stretch of code between two awaits.                                     *)
(***************************************************************************)
EXTENDS Integers, Sequences, FiniteSets, TLC

VARIABLES
    pc,       \* pc[c]: where call c stands: "idle", "fetching", "body", "done"
    op,       \* op[c]: the entry operation of call c
    arg,      \* arg[c]: its argument (uri, text, barcode, tokens)
    timers,   \* calls whose deadline timer is armed (set, neither fired nor cleared)
    aborted,  \* calls whose AbortController has been aborted (signal.aborted)
    res,      \* res[c]: the Response the fetch of call c resolved with
    body,     \* body[c]: what reading the body of res[c] settled with
    out,      \* out[c]: how call c ended: a returned value or a thrown Error
    \* the state of the App component (useState) and of its handlers
    loading,        \* the loading flag
    error,          \* the error message, or null
    results,        \* the result list, or null
    resultSource,   \* "image", "text", "barcode", or null
    scannerVisible, \* the scanner modal is to be shown
    imgUri,         \* the picked photo, or null
    cameraMounted,  \* the CameraView of the modal is mounted (last commit)
    pending,        \* permission requests the handlers are awaiting
    task            \* task[c]: what the handler that owns call c is awaiting

\* the state of the request layer
api == <<pc, op, arg, timers, aborted, res, body, out>>

\* the state of the App component
ui == <<loading, error, results, resultSource, scannerVisible, imgUri,
        cameraMounted, pending, task>>

vars == <<pc, op, arg, timers, aborted, res, body, out,
          loading, error, results, resultSource, scannerVisible, imgUri,
          cameraMounted, pending, task>>

----------------------------------------------------------------------------
(* Bounds of the model *)

\* calls that may be in flight at once in the transport specification
MaxCalls == 2
\* longest hits / candidates / items array a backend body carries
MaxHits == 2

----------------------------------------------------------------------------
(* JavaScript values *)

Undef == [t |-> "undefined"]
Null == [t |-> "null"]
Str(s) == [t |-> "string", v |-> s]
Num(n) == [t |-> "number", v |-> n]
Bool(b) == [t |-> "boolean", v |-> b]
Arr(s) == [t |-> "array", v |-> s]
Obj(r) == [t |-> "object", v |-> r]

\* typeof x
TypeOf(x) ==
    IF x.t \in {"null", "array"} THEN "object" ELSE x.t

\* Array.isArray(x)
IsArray(x) == x.t = "array"

\* x.f for a value x that is not null or undefined: a missing property, and any
\* property of a number or a string used here, reads as undefined
Get(x, f) ==
    IF x.t = "object" /\ f \in DOMAIN x.v THEN x.v[f] ELSE Undef

\* x ?? y
Coalesce(x, y) ==
    IF x.t \in {"undefined", "null"} THEN y ELSE x

\* the truthiness of x, as  !x  and  x || y  test it
Truthy(x) ==
    CASE x.t \in {"undefined", "null"} -> FALSE
      [] x.t = "string" -> x.v # ""
      [] x.t = "number" -> x.v # 0
      [] x.t = "boolean" -> x.v
      [] OTHER -> TRUE

\* x || y
OrElse(x, y) ==
    IF Truthy(x) THEN x ELSE y

\* String.prototype.trim on the strings of the model
Trim(s) ==
    CASE s = " Gum " -> "Gum"
      [] s = "   " -> ""
      [] s = " sugar, xylitol " -> "sugar, xylitol"
      [] OTHER -> s

\* String.prototype.toUpperCase on the strings of the model
ToUpperCase(s) ==
    CASE s = "unsafe" -> "UNSAFE"
      [] s = "safe" -> "SAFE"
      [] s = "caution" -> "CAUTION"
      [] s = "maybe" -> "MAYBE"
      [] OTHER -> s

\* type Verdict = "SAFE" | "CAUTION" | "UNSAFE"
Verdict == {"SAFE", "CAUTION", "UNSAFE"}

\* all sequences over S of length 0..n
SeqsUpTo(S, n) ==
    UNION {[1..k -> S] : k \in 0..n}

----------------------------------------------------------------------------
(* Errors and outcomes *)

\* a thrown value: err.name and err.message, and (for the properties only, the
\* program does not read it) the statement that threw it
Err(site, name, message) == [site |-> site, name |-> name, message |-> message]

\* what a body of an entry operation does: return a value or throw
Return(v) == [ok |-> TRUE, value |-> v]
Throw(e) == [ok |-> FALSE, err |-> e]

\* the texts of the Errors (typographic apostrophes written as ')
TimeoutMessage == "Request timed out - please try again"
NetworkErrorMessage == "Network error"
NotFoundMessage ==
    "We couldn't find this barcode in our database yet. It may be a non-food item or a product we haven't indexed."
IngredientsMissingMessage ==
    "We couldn't find any ingredients for this product in our database."
NoHitsMessage ==
    "We couldn't match any ingredients for this product. It might not be a food item or its ingredients aren't in our database yet."
BarcodeShapeMessage == "Unexpected response shape from /barcode/resolve"
TextShapeMessage == "Unexpected response shape from server"
TokensShapeMessage == "Unexpected response shape from /ingredients/resolve-tokens"

\* faulty variant: a catch clause that does not tell the AbortError apart
CatchClause_NoAbortTest(o) ==
    IF o.ok THEN o
    ELSE Throw(Err(o.err.site, "Error",
                   Coalesce(o.err.message, Str(NetworkErrorMessage))))

\* the catch clause every entry operation ends with: an AbortError becomes the
\* time-out Error, any other thrown value an Error with the same message
\* (err?.message ?? "Network error")
CatchClause(o) ==
    IF o.ok THEN o
    ELSE IF o.err.name = "AbortError"
         THEN Throw(Err(o.err.site, "Error", Str(TimeoutMessage)))
         ELSE Throw(Err(o.err.site, "Error",
                        Coalesce(o.err.message, Str(NetworkErrorMessage))))

----------------------------------------------------------------------------
(* checkBarcodeAsync, from the decoded body on *)

\* h.status === v
StatusIs(h, v) == Get(h, "status") = Str(v)

\* faulty variant: CAUTION is looked for before UNSAFE
OverallStatus_CautionFirst(json, hits) ==
    LET o == Get(json, "overall_status")
        s == ToUpperCase(o.v)
    IN IF TypeOf(o) = "string"
       THEN IF s \in Verdict THEN s ELSE "SAFE"
       ELSE IF (\E i \in 1..Len(hits) : StatusIs(hits[i], "CAUTION")) THEN "CAUTION"
            ELSE IF (\E i \in 1..Len(hits) : StatusIs(hits[i], "UNSAFE")) THEN "UNSAFE"
            ELSE "SAFE"

\* the overall status of the product card
OverallStatus(json, hits) ==
    LET o == Get(json, "overall_status")
        s == ToUpperCase(o.v)
    IN IF TypeOf(o) = "string"
       THEN IF s \in Verdict THEN s ELSE "SAFE"
       ELSE IF (\E i \in 1..Len(hits) : StatusIs(hits[i], "UNSAFE")) THEN "UNSAFE"
            ELSE IF (\E i \in 1..Len(hits) : StatusIs(hits[i], "CAUTION")) THEN "CAUTION"
            ELSE "SAFE"

\* json.display_name, trimmed, or the placeholder
DisplayName(json) ==
    LET d == Get(json, "display_name")
    IN IF TypeOf(d) = "string" /\ Trim(d.v) # "" THEN Trim(d.v) ELSE "Scanned product"

\* json.raw_ingredients, trimmed, or ""
IngredientsText(json) ==
    LET r == Get(json, "raw_ingredients")
    IN IF TypeOf(r) = "string" THEN Trim(r.v) ELSE ""

\* productRationaleParts.join(" ")
ProductRationale(json, hits) ==
    LET first == "Overall rating based on " \o ToString(Len(hits)) \o " ingredient"
                 \o (IF Len(hits) = 1 THEN "" ELSE "s")
                 \o " we recognized in this product."
    IN IF IngredientsText(json) # ""
       THEN first \o " " \o "Label ingredients: " \o IngredientsText(json)
       ELSE first

\* the overall product card
OverallItem(barcode, json, hits) ==
    Obj([label |-> Str(barcode),
         name |-> Str(DisplayName(json)),
         final_status |-> Str(OverallStatus(json, hits)),
         rationale |-> Str(ProductRationale(json, hits)),
         sources |-> Arr(<<>>),
         isProduct |-> Bool(TRUE)])

\* faulty variant: db_score is copied without the typeof test
IngredientItem_RawScore(h) ==
    Obj([label |-> Get(h, "token"),
         name |-> Get(h, "name"),
         final_status |-> Get(h, "status"),
         rationale |-> Coalesce(Get(h, "notes"), Undef),
         sources |-> Coalesce(Get(h, "sources"), Undef),
         det_conf |-> Get(h, "db_score")])

\* one card per ingredient hit
IngredientItem(h) ==
    Obj([label |-> Get(h, "token"),
         name |-> Get(h, "name"),
         final_status |-> Get(h, "status"),
         rationale |-> Coalesce(Get(h, "notes"), Undef),
         sources |-> Coalesce(Get(h, "sources"), Undef),
         det_conf |-> IF TypeOf(Get(h, "db_score")) = "number"
                      THEN Get(h, "db_score") ELSE Undef])

\* faulty variant: the product card is appended to the ingredient cards
BarcodeBody_AggregateLast(barcode, json) ==
    IF json.t \in {"null", "undefined"}
    THEN Throw(Err("json.error", "TypeError",
                   Str("Cannot read property 'error' of null")))
    ELSE IF Get(json, "error") = Str("barcode_not_found")
    THEN Throw(Err("barcode_not_found", "Error",
                   OrElse(Get(json, "message"), Str(NotFoundMessage))))
    ELSE IF Get(json, "error") = Str("ingredients_missing")
    THEN Throw(Err("ingredients_missing", "Error",
                   OrElse(Get(json, "message"), Str(IngredientsMissingMessage))))
    ELSE IF ~Truthy(json) \/ TypeOf(json) # "object" \/ ~IsArray(Get(json, "hits"))
    THEN Throw(Err("shape", "Error", Str(BarcodeShapeMessage)))
    ELSE LET hits == Get(json, "hits").v
         IN IF Len(hits) = 0
            THEN Throw(Err("no_hits", "Error", Str(NoHitsMessage)))
            ELSE Return(Arr([i \in 1..Len(hits) |-> IngredientItem(hits[i])]
                            \o <<OverallItem(barcode, json, hits)>>))

\* faulty variant: the error signals of the backend are read only when the payload
\* has no usable hits
BarcodeBody_HitsWin(barcode, json) ==
    IF json.t \in {"null", "undefined"}
    THEN Throw(Err("json.error", "TypeError",
                   Str("Cannot read property 'error' of null")))
    ELSE IF IsArray(Get(json, "hits")) /\ Len(Get(json, "hits").v) > 0
    THEN LET hits == Get(json, "hits").v
         IN Return(Arr(<<OverallItem(barcode, json, hits)>>
                       \o [i \in 1..Len(hits) |-> IngredientItem(hits[i])]))
    ELSE IF Get(json, "error") = Str("barcode_not_found")
    THEN Throw(Err("barcode_not_found", "Error",
                   OrElse(Get(json, "message"), Str(NotFoundMessage))))
    ELSE IF Get(json, "error") = Str("ingredients_missing")
    THEN Throw(Err("ingredients_missing", "Error",
                   OrElse(Get(json, "message"), Str(IngredientsMissingMessage))))
    ELSE IF ~Truthy(json) \/ TypeOf(json) # "object" \/ ~IsArray(Get(json, "hits"))
    THEN Throw(Err("shape", "Error", Str(BarcodeShapeMessage)))
    ELSE Throw(Err("no_hits", "Error", Str(NoHitsMessage)))

\* faulty variant: the shape of the payload is validated before the
\* "ingredients_missing" signal is read
BarcodeBody_ShapeBeforeMissing(barcode, json) ==
    IF json.t \in {"null", "undefined"}
    THEN Throw(Err("json.error", "TypeError",
                   Str("Cannot read property 'error' of null")))
    ELSE IF Get(json, "error") = Str("barcode_not_found")
    THEN Throw(Err("barcode_not_found", "Error",
                   OrElse(Get(json, "message"), Str(NotFoundMessage))))
    ELSE IF ~Truthy(json) \/ TypeOf(json) # "object" \/ ~IsArray(Get(json, "hits"))
    THEN Throw(Err("shape", "Error", Str(BarcodeShapeMessage)))
    ELSE IF Get(json, "error") = Str("ingredients_missing")
    THEN Throw(Err("ingredients_missing", "Error",
                   OrElse(Get(json, "message"), Str(IngredientsMissingMessage))))
    ELSE LET hits == Get(json, "hits").v
         IN IF Len(hits) = 0
            THEN Throw(Err("no_hits", "Error", Str(NoHitsMessage)))
            ELSE Return(Arr(<<OverallItem(barcode, json, hits)>>
                            \o [i \in 1..Len(hits) |-> IngredientItem(hits[i])]))

\* faulty variant: no test for an empty hits array
BarcodeBody_NoEmptyTest(barcode, json) ==
    IF json.t \in {"null", "undefined"}
    THEN Throw(Err("json.error", "TypeError",
                   Str("Cannot read property 'error' of null")))
    ELSE IF Get(json, "error") = Str("barcode_not_found")
    THEN Throw(Err("barcode_not_found", "Error",
                   OrElse(Get(json, "message"), Str(NotFoundMessage))))
    ELSE IF Get(json, "error") = Str("ingredients_missing")
    THEN Throw(Err("ingredients_missing", "Error",
                   OrElse(Get(json, "message"), Str(IngredientsMissingMessage))))
    ELSE IF ~Truthy(json) \/ TypeOf(json) # "object" \/ ~IsArray(Get(json, "hits"))
    THEN Throw(Err("shape", "Error", Str(BarcodeShapeMessage)))
    ELSE LET hits == Get(json, "hits").v
         IN Return(Arr(<<OverallItem(barcode, json, hits)>>
                       \o [i \in 1..Len(hits) |-> IngredientItem(hits[i])]))

\* the statements of checkBarcodeAsync after  const json = await res.json()
BarcodeBody(barcode, json) ==
    IF json.t \in {"null", "undefined"}
    THEN Throw(Err("json.error", "TypeError",
                   Str("Cannot read property 'error' of null")))
    ELSE IF Get(json, "error") = Str("barcode_not_found")
    THEN Throw(Err("barcode_not_found", "Error",
                   OrElse(Get(json, "message"), Str(NotFoundMessage))))
    ELSE IF Get(json, "error") = Str("ingredients_missing")
    THEN Throw(Err("ingredients_missing", "Error",
                   OrElse(Get(json, "message"), Str(IngredientsMissingMessage))))
    ELSE IF ~Truthy(json) \/ TypeOf(json) # "object" \/ ~IsArray(Get(json, "hits"))
    THEN Throw(Err("shape", "Error", Str(BarcodeShapeMessage)))
    ELSE LET hits == Get(json, "hits").v
         IN IF Len(hits) = 0
            THEN Throw(Err("no_hits", "Error", Str(NoHitsMessage)))
            ELSE Return(Arr(<<OverallItem(barcode, json, hits)>>
                            \o [i \in 1..Len(hits) |-> IngredientItem(hits[i])]))

----------------------------------------------------------------------------
(* classifyImageAsync, from the decoded body on *)

\* faulty variant: default_status is preferred to status
CandidateItem_DefaultStatusFirst(c) ==
    Obj([name |-> Coalesce(Get(c, "name"),
                           Coalesce(Get(c, "canonical_name"), Get(c, "label"))),
         label |-> Coalesce(Get(c, "model_label"),
                            Coalesce(Get(c, "label"), Get(c, "name"))),
         final_status |-> Coalesce(Get(c, "default_status"), Get(c, "status")),
         rationale |-> Coalesce(Get(c, "rationale"), Coalesce(Get(c, "reason"), Undef)),
         det_conf |-> Coalesce(Get(c, "model_score"), Get(c, "det_conf")),
         sources |-> Coalesce(Get(c, "sources"), Arr(<<>>))])

\* one item per candidate of {candidates: [...]}
CandidateItem(c) ==
    Obj([name |-> Coalesce(Get(c, "name"),
                           Coalesce(Get(c, "canonical_name"), Get(c, "label"))),
         label |-> Coalesce(Get(c, "model_label"),
                            Coalesce(Get(c, "label"), Get(c, "name"))),
         final_status |-> Coalesce(Get(c, "status"), Get(c, "default_status")),
         rationale |-> Coalesce(Get(c, "rationale"), Coalesce(Get(c, "reason"), Undef)),
         det_conf |-> Coalesce(Get(c, "model_score"), Get(c, "det_conf")),
         sources |-> Coalesce(Get(c, "sources"), Arr(<<>>))])

\* faulty variant: a body of neither accepted shape is an error
ImageBody_ThrowsOnMismatch(json) ==
    IF IsArray(json)
    THEN Return(json)
    ELSE IF Truthy(json) /\ IsArray(Get(json, "candidates"))
    THEN LET candidates == Get(json, "candidates").v
         IN Return(Arr([i \in 1..Len(candidates) |-> CandidateItem(candidates[i])]))
    ELSE Throw(Err("shape", "Error", Str(TextShapeMessage)))

\* the statements of classifyImageAsync after
\*   const json = await res.json().catch(() => null)
ImageBody(json) ==
    IF IsArray(json)
    THEN Return(json)
    ELSE IF Truthy(json) /\ IsArray(Get(json, "candidates"))
    THEN LET candidates == Get(json, "candidates").v
         IN Return(Arr([i \in 1..Len(candidates) |-> CandidateItem(candidates[i])]))
    ELSE Return(Arr(<<>>))

----------------------------------------------------------------------------
(* resolveTextAsync and resolveTokensAsync, from the decoded body on *)

\* faulty variant: a body of the wrong shape is read as a payload with no hits
TextBody_EmptyOnMismatch(json) ==
    IF ~Truthy(json) \/ TypeOf(json) # "object" \/ ~IsArray(Get(json, "hits"))
    THEN Return(Obj([hits |-> Arr(<<>>), overall_status |-> Undef]))
    ELSE Return(json)

\* the statements of resolveTextAsync after  const json = await res.json()
TextBody(json) ==
    IF ~Truthy(json) \/ TypeOf(json) # "object" \/ ~IsArray(Get(json, "hits"))
    THEN Throw(Err("shape", "Error", Str(TextShapeMessage)))
    ELSE Return(json)

\* the statements of resolveTokensAsync after  const json = await res.json()
TokensBody(json) ==
    IF ~Truthy(json) \/ TypeOf(json) # "object" \/ ~IsArray(Get(json, "hits"))
    THEN Throw(Err("shape", "Error", Str(TokensShapeMessage)))
    ELSE Return(Get(json, "hits"))

\* the item runTextCheck makes of a hit of resolveTextAsync
TextItem(h) ==
    Obj([label |-> Get(h, "token"),
         name |-> Get(h, "name"),
         final_status |-> Get(h, "status"),
         rationale |-> Coalesce(Get(h, "notes"), Undef),
         sources |-> Coalesce(Get(h, "sources"), Arr(<<>>)),
         det_conf |-> IF TypeOf(Get(h, "db_score")) = "number"
                      THEN Get(h, "db_score") ELSE Undef])

\* faulty variant: the items come out in the reverse order of the hits
TextItems_Reversed(value) ==
    LET hits == Get(value, "hits").v
    IN Arr([i \in 1..Len(hits) |-> TextItem(hits[Len(hits) + 1 - i])])

\* faulty variant: every item takes the overall verdict of the payload
TextItems_OverallVerdict(value) ==
    LET hits == Get(value, "hits").v
    IN Arr([i \in 1..Len(hits) |->
               Obj([label |-> Get(hits[i], "token"),
                    name |-> Get(hits[i], "name"),
                    final_status |-> Get(value, "overall_status"),
                    rationale |-> Coalesce(Get(hits[i], "notes"), Undef),
                    sources |-> Coalesce(Get(hits[i], "sources"), Arr(<<>>)),
                    det_conf |-> IF TypeOf(Get(hits[i], "db_score")) = "number"
                                 THEN Get(hits[i], "db_score") ELSE Undef])])

\* out.hits.map(...) of runTextCheck
TextItems(value) ==
    LET hits == Get(value, "hits").v
    IN Arr([i \in 1..Len(hits) |-> TextItem(hits[i])])

----------------------------------------------------------------------------
(* The text flow of the screen, from the settled resolveTextAsync on *)

\* what a handler leaves in the state of the screen: setResults, setError
Screen(items, message) == [results |-> items, error |-> message]

TextCheckFailedMessage == "We couldn't check that text. Please try again."
ResolveFailedMessage == "Resolve failed."

\* runTextCheck of the screen with the barcode scanner, after resolveTextAsync
\* settled with o
RunTextCheck(o) ==
    IF o.ok
    THEN Screen(TextItems(o.value), Null)
    ELSE Screen(Null, OrElse(o.err.message, Str(TextCheckFailedMessage)))

\* the item the earlier screen makes of hit h of block b
BlockItem(b, h) ==
    Obj([label |-> Coalesce(Get(h, "label"), Get(h, "name")),
         name |-> Get(h, "name"),
         final_status |-> Get(b, "overall_status"),
         rationale |-> Get(h, "rationale"),
         sources |-> Get(h, "sources")])

\* blocks.flatMap((b) => (b?.hits ?? []).map(...))
RECURSIVE FlatMapBlocks(_)
FlatMapBlocks(blocks) ==
    IF blocks = <<>> THEN <<>>
    ELSE LET b == Head(blocks)
             hits == Coalesce(Get(b, "hits"), Arr(<<>>)).v
         IN [i \in 1..Len(hits) |-> BlockItem(b, hits[i])]
            \o FlatMapBlocks(Tail(blocks))

\* checkText of the earlier screen, after resolveTextAsync settled with o:
\* (out ?? []).flatMap(...) is a call of undefined, a TypeError, unless out is
\* an array
CheckText(o) ==
    IF ~o.ok
    THEN Screen(Null, Coalesce(o.err.message, Str(ResolveFailedMessage)))
    ELSE LET blocks == Coalesce(o.value, Arr(<<>>))
         IN IF IsArray(blocks)
            THEN Screen(Arr(FlatMapBlocks(blocks.v)), Null)
            ELSE Screen(Null, Str("out.flatMap is not a function"))

----------------------------------------------------------------------------
(* The backend: the responses and bodies a call may receive *)

\* a ResolveHit as the backend sends it
Hit(token, name, status, score, notes, sources) ==
    Obj([token |-> token, name |-> name, status |-> status,
         db_score |-> score, notes |-> notes, sources |-> sources])

\* hits that differ in their status only: the three verdicts, a status outside
\* the enumeration, no status
StatusHits ==
    {Hit(Str("xylitol"), Str("Xylitol"), st, Num(1), Str("toxic to dogs"),
         Arr(<<Str("aspca.org")>>)) :
        st \in {Str("SAFE"), Str("CAUTION"), Str("UNSAFE"), Str("TOXIC"), Undef}}

\* hits with null or absent optional fields, and a hit with neither token nor name
SparseHits ==
    {Hit(Str("rice"), Str("Rice"), Str("SAFE"), Null, Null, Null),
     Hit(Str("rice"), Str("Rice"), Str("CAUTION"), Undef, Undef, Undef),
     Hit(Str(""), Undef, Str("SAFE"), Num(1), Undef, Arr(<<>>))}

\* the values of a hits field: absent, not an array, arrays of hits
HitsValues ==
    {Undef, Str("none")}
    \cup {Arr(h) : h \in SeqsUpTo(StatusHits, MaxHits)}
    \cup {Arr(<<h>>) : h \in SparseHits}

NonObjectBodies == {Null, Num(7), Str("ok"), Arr(<<>>)}

\* bodies of /barcode/resolve
BarcodeBodies ==
    NonObjectBodies
    \cup {Obj([error |-> e, message |-> m, hits |-> h, overall_status |-> o,
               display_name |-> d, raw_ingredients |-> r]) :
            e \in {Undef, Str("barcode_not_found"), Str("ingredients_missing")},
            m \in {Undef, Str(""), Str("Product 0123 is unknown")},
            h \in HitsValues,
            o \in {Undef, Str("SAFE"), Str("CAUTION"), Str("UNSAFE"),
                   Str("unsafe"), Str("maybe"), Num(2)},
            d \in {Undef, Str("   "), Str(" Gum ")},
            r \in {Undef, Str(" sugar, xylitol ")}}

\* bodies of /ingredients/resolve
TextBodies ==
    NonObjectBodies
    \cup {Obj([hits |-> h, overall_status |-> o]) :
            h \in HitsValues, o \in {Undef, Str("SAFE"), Str("UNSAFE")}}

\* bodies of /ingredients/resolve-tokens
TokensBodies ==
    NonObjectBodies \cup {Obj([hits |-> h]) : h \in HitsValues}

\* a record of the candidates array of /classify/resolve
Candidate(name, canonical, label, modelLabel, status, default) ==
    Obj([name |-> name, canonical_name |-> canonical, label |-> label,
         model_label |-> modelLabel, status |-> status, default_status |-> default,
         rationale |-> Undef, reason |-> Str("contains persin"),
         model_score |-> Undef, det_conf |-> Num(1), sources |-> Undef])

Candidates ==
    {Candidate(Str("Grapes"), Undef, Undef, Undef, Str("UNSAFE"), Undef),
     Candidate(Str("Grapes"), Str("Vitis vinifera"), Str("grape"), Str("n0123"),
               Undef, Str("CAUTION")),
     Candidate(Undef, Str("Vitis vinifera"), Str("grape"), Undef, Str("SAFE"),
               Str("UNSAFE")),
     Candidate(Undef, Undef, Str("grape"), Undef, Str("TOXIC"), Undef),
     Candidate(Str("Grapes"), Undef, Undef, Undef, Undef, Undef),
     Candidate(Undef, Undef, Undef, Undef, Str("SAFE"), Undef)}

\* the records of a bare array of /classify/resolve: items the backend has
\* normalised already, well formed or not
BareItems ==
    {Obj([label |-> Str("apple"), name |-> Str("Apple"), final_status |-> Str("SAFE")]),
     Obj([label |-> Str("grape"), final_status |-> Str("UNSAFE")]),
     Obj([label |-> Str("grape"), name |-> Str("Grapes"), final_status |-> Str("TOXIC")]),
     Obj([final_status |-> Str("SAFE")])}

\* bodies of /classify/resolve ({} is the object of the empty function)
ImageBodies ==
    {Null, Num(7), Str("ok"), Obj(<<>>), Obj([items |-> Arr(<<>>)]),
     Obj([candidates |-> Str("none")])}
    \cup {Arr(i) : i \in SeqsUpTo(BareItems, MaxHits)}
    \cup {Obj([candidates |-> Arr(c)]) : c \in SeqsUpTo(Candidates, MaxHits)}

\* the entry operations
Ops == {"image", "text", "barcode", "tokens"}

\* the arguments the caller passes
Args(o) ==
    CASE o = "image" -> {"file:///photo.jpg"}
      [] o = "text" -> {"xylitol gum"}
      [] o = "barcode" -> {"012345678905", "4006381333931"}
      [] o = "tokens" -> {<<>>, <<"xylitol">>}

\* the bodies the endpoint of an operation may answer with
RichBodies(o) ==
    CASE o = "image" -> ImageBodies
      [] o = "text" -> TextBodies
      [] o = "barcode" -> BarcodeBodies
      [] o = "tokens" -> TokensBodies

\* one well-formed and one malformed body per endpoint
FewBodies(o) ==
    CASE o = "image" ->
            {Obj([candidates |-> Arr(<<CHOOSE c \in Candidates :
                                          Get(c, "status") = Str("UNSAFE")>>)]),
             Null}
      [] o = "text" ->
            {Obj([hits |-> Arr(<<CHOOSE h \in StatusHits : StatusIs(h, "UNSAFE")>>),
                  overall_status |-> Str("UNSAFE")]),
             Null}
      [] o = "barcode" ->
            {Obj([error |-> Undef, message |-> Undef,
                  hits |-> Arr(<<CHOOSE h \in StatusHits : StatusIs(h, "CAUTION")>>),
                  overall_status |-> Undef, display_name |-> Str(" Gum "),
                  raw_ingredients |-> Undef]),
             Obj([error |-> Str("barcode_not_found"), message |-> Undef,
                  hits |-> Undef, overall_status |-> Undef, display_name |-> Undef,
                  raw_ingredients |-> Undef])}
      [] o = "tokens" ->
            {Obj([hits |-> Arr(<<CHOOSE h \in StatusHits : StatusIs(h, "SAFE")>>)]),
             Obj([hits |-> Undef])}

\* the bodies an endpoint answers with: all of the model, or a few
Bodies(o, rich) ==
    IF rich THEN RichBodies(o) ELSE FewBodies(o)

\* the Response a fetch resolves with: res.ok, res.status, res.statusText
Response(ok, status, statusText) ==
    [ok |-> ok, status |-> status, statusText |-> statusText]

Responses ==
    {Response(TRUE, 200, "OK"),
     Response(FALSE, 500, "Internal Server Error")}

\* what res.text() settles with
TextReads ==
    {Return(Str("")), Return(Str("upstream unavailable")),
     Throw(Err("res.text", "TypeError", Str("Failed to read body")))}

\* what res.json() throws on a body that is not JSON
JsonSyntaxError ==
    Throw(Err("res.json", "SyntaxError", Str("JSON Parse error: Unexpected token <")))

\* what reading the body of response r settles with: res.text() of a response
\* that is not ok, res.json() of one that is
Reads(r, bodies) ==
    IF r.ok THEN {JsonSyntaxError} \cup {Return(b) : b \in bodies}
    ELSE TextReads

----------------------------------------------------------------------------
(* The entry operations, from the settled fetch on *)

\* the text of the Error thrown for a response that is not ok
ServerErrorMessage(o, r, txt) ==
    LET detail == OrElse(txt, Str(r.statusText)).v
    IN CASE o = "image" ->
               "Server responded " \o ToString(r.status) \o ": " \o detail
         [] o = "text" ->
               "Resolve failed (" \o ToString(r.status) \o "): " \o detail
         [] o = "barcode" ->
               "Barcode lookup failed (" \o ToString(r.status) \o "): " \o detail
         [] o = "tokens" ->
               "Token resolve failed (" \o ToString(r.status) \o "): " \o detail

\* the statements of an entry operation on the decoded body
Normalize(o, a, json) ==
    CASE o = "image" -> ImageBody(json)
      [] o = "text" -> TextBody(json)
      [] o = "barcode" -> BarcodeBody(a, json)
      [] o = "tokens" -> TokensBody(json)

\* faulty variant: the status of the response is not tested
TryBlock_NoStatusTest(o, a, r, rd) ==
    IF rd.ok
    THEN Normalize(o, a, rd.value)
    ELSE IF o = "image"
    THEN Normalize(o, a, Null)
    ELSE rd

\* the try block of entry operation o from  if (!res.ok)  on, where the body of
\* response r read as rd
TryBlock(o, a, r, rd) ==
    IF ~r.ok
    THEN \* const txt = await res.text().catch(() => "")
         Throw(Err("status", "Error",
                   Str(ServerErrorMessage(o, r, IF rd.ok THEN rd.value ELSE Str("")))))
    ELSE IF rd.ok
    THEN Normalize(o, a, rd.value)
    ELSE IF o = "image"
    THEN \* res.json().catch(() => null)
         Normalize(o, a, Null)
    ELSE rd

\* what the fetch promise rejects with
AbortError == Throw(Err("fetch", "AbortError", Str("Aborted")))
NetworkFailure == Throw(Err("fetch", "TypeError", Str("Network request failed")))

----------------------------------------------------------------------------
(* The calls *)

None == [t |-> "none"]

CallIds == 1..MaxCalls

Init ==
    /\ pc = [c \in CallIds |-> "idle"]
    /\ op = [c \in CallIds |-> "none"]
    /\ arg = [c \in CallIds |-> None]
    /\ timers = {}
    /\ aborted = {}
    /\ res = [c \in CallIds |-> None]
    /\ body = [c \in CallIds |-> None]
    /\ out = [c \in CallIds |-> None]
    /\ loading = FALSE
    /\ error = Null
    /\ results = Null
    /\ resultSource = Null
    /\ scannerVisible = FALSE
    /\ imgUri = Null
    /\ cameraMounted = FALSE
    /\ pending = {}
    /\ task = [c \in CallIds |-> "none"]

\* The caller calls entry operation o with argument a. The operation runs up to
\* its first await: withAbortController makes a controller, arms the deadline
\* timer and starts the fetch. resolveTokensAsync returns at once on no tokens.
Start(c, o, a) ==
    /\ pc[c] \in {"idle", "done"}
    /\ op' = [op EXCEPT ![c] = o]
    /\ arg' = [arg EXCEPT ![c] = a]
    /\ res' = [res EXCEPT ![c] = None]
    /\ body' = [body EXCEPT ![c] = None]
    /\ aborted' = aborted \ {c}
    /\ IF o = "tokens" /\ Len(a) = 0
       THEN /\ pc' = [pc EXCEPT ![c] = "done"]
            /\ out' = [out EXCEPT ![c] = Return(Arr(<<>>))]
            /\ timers' = timers
       ELSE /\ pc' = [pc EXCEPT ![c] = "fetching"]
            /\ out' = [out EXCEPT ![c] = None]
            /\ timers' = timers \cup {c}

\* faulty variant: one controller shared by the calls, so that the deadline of
\* one call aborts every request in flight
TimerFire_SharedController(c) ==
    /\ c \in timers
    /\ timers' = timers \ {d \in CallIds : pc[d] = "fetching"}
    /\ aborted' = aborted \cup {d \in CallIds : pc[d] = "fetching"}
    /\ UNCHANGED <<pc, op, arg, res, body, out>>

\* The deadline timer of call c fires: () => controller.abort()
TimerFire(c) ==
    /\ c \in timers
    /\ timers' = timers \ {c}
    /\ aborted' = aborted \cup {c}
    /\ UNCHANGED <<pc, op, arg, res, body, out>>

\* faulty variant: a wrapper that never clears the timer
ClearTimeout_Never(c) == timers

\* the finally callback of withAbortController: clearTimeout(timeout)
ClearTimeout(c) == timers \ {c}

\* The fetch of call c, aborted, rejects with an AbortError; the finally
\* callback runs and the catch clause of the operation throws.
AbortReject(c) ==
    /\ pc[c] = "fetching"
    /\ c \in aborted
    /\ timers' = ClearTimeout(c)
    /\ out' = [out EXCEPT ![c] = CatchClause(AbortError)]
    /\ pc' = [pc EXCEPT ![c] = "done"]
    /\ UNCHANGED <<op, arg, aborted, res, body>>

\* The fetch of call c rejects on a network failure.
FetchReject(c) ==
    /\ pc[c] = "fetching"
    /\ c \notin aborted
    /\ timers' = ClearTimeout(c)
    /\ out' = [out EXCEPT ![c] = CatchClause(NetworkFailure)]
    /\ pc' = [pc EXCEPT ![c] = "done"]
    /\ UNCHANGED <<op, arg, aborted, res, body>>

\* faulty variant: the deadline timer is left armed while the body is read
FetchResolve_TimerLeftArmed(c, r) ==
    /\ pc[c] = "fetching"
    /\ c \notin aborted
    /\ res' = [res EXCEPT ![c] = r]
    /\ pc' = [pc EXCEPT ![c] = "body"]
    /\ UNCHANGED <<op, arg, timers, aborted, body, out>>

\* The fetch of call c resolves with response r; the finally callback runs and
\* the operation goes on to read the body.
FetchResolve(c, r) ==
    /\ pc[c] = "fetching"
    /\ c \notin aborted
    /\ timers' = ClearTimeout(c)
    /\ res' = [res EXCEPT ![c] = r]
    /\ pc' = [pc EXCEPT ![c] = "body"]
    /\ UNCHANGED <<op, arg, aborted, body, out>>

\* Reading the body of the response of call c settles, the endpoint answering
\* with one of Bodies(op[c], rich), and the operation runs to its end.
ReadBody(c, rich) ==
    /\ pc[c] = "body"
    /\ \E rd \in Reads(res[c], Bodies(op[c], rich)) :
          /\ body' = [body EXCEPT ![c] = rd]
          /\ out' = [out EXCEPT ![c] =
                        CatchClause(TryBlock(op[c], arg[c], res[c], rd))]
    /\ pc' = [pc EXCEPT ![c] = "done"]
    /\ UNCHANGED <<op, arg, timers, aborted, res>>

\* the steps of the calls in ids, the backend answering with Bodies(o, rich)
NextOf(ids, rich) ==
    \E c \in ids :
        \/ \E o \in Ops : \E a \in Args(o) : Start(c, o, a)
        \/ TimerFire(c)
        \/ AbortReject(c)
        \/ FetchReject(c)
        \/ \E r \in Responses : FetchResolve(c, r)
        \/ ReadBody(c, rich)

\* one call at a time, against every body of the model
Next == NextOf({1}, TRUE) /\ UNCHANGED ui

Spec == Init /\ [][Next]_vars

\* MaxCalls calls in flight at once, against a few bodies
NextCalls == NextOf(CallIds, FALSE) /\ UNCHANGED ui

SpecCalls == Init /\ [][NextCalls]_vars

\* two text checks at once, against every body of /ingredients/resolve
TextCalls == {c \in CallIds : c <= 2}

NextText ==
    /\ \E c \in TextCalls :
          \/ \E a \in Args("text") : Start(c, "text", a)
          \/ TimerFire(c)
          \/ AbortReject(c)
          \/ FetchReject(c)
          \/ \E r \in Responses : FetchResolve(c, r)
          \/ ReadBody(c, TRUE)
    /\ UNCHANGED ui

SpecText == Init /\ [][NextText]_vars

----------------------------------------------------------------------------
(* The App component: its handlers, over the calls of the request layer *)

GalleryPermissionMessage == "Gallery permission is required to pick a photo."
CameraPermissionMessage == "Camera permission is required to take a photo."
ScannerPermissionMessage == "Camera permission is required to scan barcodes."
PhotoCheckFailedMessage == "We couldn't check this photo. Please try again."
BarcodeCheckFailedMessage == "We couldn't look up that barcode. Please try again."

\* the permission requests a handler may be awaiting
PermissionKinds == {"gallery", "camera", "scanner"}

\* the screen takes presses: neither the scanner modal nor a permission dialog
\* or picker covers it
ScreenFree == ~cameraMounted /\ pending = {}

\* the barcode the camera reads
ScanData == {"012345678905"}

\* the message of the handler whose permission request of kind k was denied
PermissionMessage(k) ==
    CASE k = "gallery" -> GalleryPermissionMessage
      [] k = "camera" -> CameraPermissionMessage
      [] k = "scanner" -> ScannerPermissionMessage

\* the calls the handlers of the screen may have outstanding at once
AppCalls == {c \in CallIds : c <= 2}

\* a handler that calls an entry operation takes the lowest call that no
\* handler owns
FreeCall(c) ==
    /\ c \in AppCalls
    /\ task[c] = "none"
    /\ \A d \in AppCalls : d < c => task[d] # "none"

\* runImageCheck after classifyImageAsync settled with o
RunImageCheck(o) ==
    IF o.ok
    THEN Screen(o.value, Null)
    ELSE Screen(Null, OrElse(o.err.message, Str(PhotoCheckFailedMessage)))

\* handleBarCodeScanned after checkBarcodeAsync settled with o
BarCodeChecked(o) ==
    IF o.ok
    THEN Screen(o.value, Null)
    ELSE Screen(Null, OrElse(o.err.message, Str(BarcodeCheckFailedMessage)))

\* what the handler that awaits entry operation o sets when it settled with r:
\* results (with the source) on a return, error on a throw
HandlerSets(o, r) ==
    CASE o = "image" -> RunImageCheck(r)
      [] o = "text" -> RunTextCheck(r)
      [] o = "barcode" -> BarCodeChecked(r)

\* resetFeedback()
ResetFeedback ==
    /\ error' = Null
    /\ results' = Null

\* pickImage, up to its first await
PickImage ==
    /\ ScreenFree
    /\ ResetFeedback
    /\ pending' = pending \cup {"gallery"}
    /\ UNCHANGED <<api, loading, resultSource, scannerVisible, imgUri,
                   cameraMounted, task>>

\* takePhoto, up to its first await
TakePhoto ==
    /\ ScreenFree
    /\ ResetFeedback
    /\ pending' = pending \cup {"camera"}
    /\ UNCHANGED <<api, loading, resultSource, scannerVisible, imgUri,
                   cameraMounted, task>>

\* requestAndOpenScanner ("Start Barcode Scan" is disabled while loading): the
\* permission is granted already, or is requested
RequestAndOpenScanner ==
    /\ ScreenFree
    /\ ~loading
    /\ ResetFeedback
    /\ \/ scannerVisible' = TRUE /\ pending' = pending
       \/ scannerVisible' = scannerVisible /\ pending' = pending \cup {"scanner"}
    /\ UNCHANGED <<api, loading, resultSource, imgUri, cameraMounted, task>>

\* a permission request settles with a denial: the handler sets its message
PermissionDenied(k) ==
    /\ k \in pending
    /\ pending' = pending \ {k}
    /\ error' = Str(PermissionMessage(k))
    /\ UNCHANGED <<api, loading, results, resultSource, scannerVisible, imgUri,
                   cameraMounted, task>>

\* a permission request settles with a grant: the scanner is opened, or the
\* picker or the camera is launched and gives a photo or is cancelled
PermissionGranted(k) ==
    /\ k \in pending
    /\ pending' = pending \ {k}
    /\ IF k = "scanner"
       THEN scannerVisible' = TRUE /\ imgUri' = imgUri
       ELSE /\ scannerVisible' = scannerVisible
            /\ imgUri' \in {imgUri, Str("file:///photo.jpg")}
    /\ UNCHANGED <<api, loading, error, results, resultSource, cameraMounted, task>>

\* React commits the Modal: the CameraView mounts or unmounts. A state update
\* made in the scan callback is committed in a later task, so the mounted
\* CameraView may report further scans before it is unmounted.
Commit ==
    /\ cameraMounted # scannerVisible
    /\ cameraMounted' = scannerVisible
    /\ UNCHANGED <<api, loading, error, results, resultSource, scannerVisible,
                   imgUri, pending, task>>

\* the Cancel button of the scanner modal
CloseScanner ==
    /\ cameraMounted
    /\ scannerVisible
    /\ scannerVisible' = FALSE
    /\ UNCHANGED <<api, loading, error, results, resultSource, imgUri,
                   cameraMounted, pending, task>>

\* runImageCheck ("Check Photo Safety" is disabled without a photo and while
\* loading), up to  await ImageManipulator.manipulateAsync(...)
RunImageCheckStart(c) ==
    /\ ScreenFree
    /\ imgUri # Null
    /\ ~loading
    /\ FreeCall(c)
    /\ loading' = TRUE
    /\ ResetFeedback
    /\ task' = [task EXCEPT ![c] = "manipulate"]
    /\ UNCHANGED <<api, resultSource, scannerVisible, imgUri, cameraMounted, pending>>

\* manipulateAsync resolves: runImageCheck calls classifyImageAsync
ManipulateResolve(c) ==
    /\ task[c] = "manipulate"
    /\ \E a \in Args("image") : Start(c, "image", a)
    /\ task' = [task EXCEPT ![c] = "lookup"]
    /\ UNCHANGED <<loading, error, results, resultSource, scannerVisible, imgUri,
                   cameraMounted, pending>>

\* manipulateAsync rejects (with some message of the library): the catch and
\* finally clauses of runImageCheck
ManipulateReject(c) ==
    /\ task[c] = "manipulate"
    /\ error' = Str("Could not load the image")
    /\ loading' = FALSE
    /\ task' = [task EXCEPT ![c] = "none"]
    /\ UNCHANGED <<api, results, resultSource, scannerVisible, imgUri,
                   cameraMounted, pending>>

\* runTextCheck ("Check Safety" is disabled on an empty query and while
\* loading), up to the fetch of resolveTextAsync
RunTextCheckStart(c) ==
    /\ ScreenFree
    /\ ~loading
    /\ FreeCall(c)
    /\ loading' = TRUE
    /\ ResetFeedback
    /\ \E a \in Args("text") : Start(c, "text", a)
    /\ task' = [task EXCEPT ![c] = "lookup"]
    /\ UNCHANGED <<resultSource, scannerVisible, imgUri, cameraMounted, pending>>

\* handleBarCodeScanned, called by the mounted CameraView with scan.data = b,
\* up to the fetch of checkBarcodeAsync
HandleBarCodeScanned(c, b) ==
    /\ cameraMounted
    /\ FreeCall(c)
    /\ scannerVisible' = FALSE
    /\ loading' = TRUE
    /\ ResetFeedback
    /\ Start(c, "barcode", b)
    /\ task' = [task EXCEPT ![c] = "lookup"]
    /\ UNCHANGED <<resultSource, imgUri, cameraMounted, pending>>

\* a step of the call a handler awaits that does not settle the call
LookupStep(c) ==
    /\ task[c] = "lookup"
    /\ \/ TimerFire(c)
       \/ \E r \in Responses : FetchResolve(c, r)
    /\ UNCHANGED ui

\* the call a handler awaits settles (the endpoint answering with a body of
\* FewBodies), and the handler runs to its end: setResults and setResultSource,
\* or setError, then setLoading(false)
LookupSettle(c) ==
    /\ task[c] = "lookup"
    /\ \/ AbortReject(c)
       \/ FetchReject(c)
       \/ ReadBody(c, FALSE)
    /\ IF out'[c].ok
       THEN /\ results' = HandlerSets(op[c], out'[c]).results
            /\ resultSource' = Str(op[c])
            /\ error' = error
       ELSE /\ error' = HandlerSets(op[c], out'[c]).error
            /\ results' = results
            /\ resultSource' = resultSource
    /\ loading' = FALSE
    /\ task' = [task EXCEPT ![c] = "none"]
    /\ UNCHANGED <<scannerVisible, imgUri, cameraMounted, pending>>

NextApp ==
    \/ PickImage
    \/ TakePhoto
    \/ RequestAndOpenScanner
    \/ \E k \in PermissionKinds : PermissionDenied(k)
    \/ \E k \in PermissionKinds : PermissionGranted(k)
    \/ Commit
    \/ CloseScanner
    \/ \E c \in AppCalls :
          \/ RunImageCheckStart(c)
          \/ ManipulateResolve(c)
          \/ ManipulateReject(c)
          \/ RunTextCheckStart(c)
          \/ \E b \in ScanData : HandleBarCodeScanned(c, b)
          \/ LookupStep(c)
          \/ LookupSettle(c)

\* the screen: its handlers interleaved, at most two calls outstanding
SpecApp == Init /\ [][NextApp]_vars

----------------------------------------------------------------------------
(* Vocabulary of the properties *)

\* call c has ended by returning / by throwing
Succeeded(c) == pc[c] = "done" /\ out[c].ok
Failed(c) == pc[c] = "done" /\ ~out[c].ok

\* call c has ended after decoding the JSON body of an ok response
Decoded(c) == pc[c] = "done" /\ res[c] # None /\ res[c].ok /\ body[c].ok

\* the decoded body of call c, and its hits array
JsonOf(c) == body[c].value
HitsOf(c) == Get(JsonOf(c), "hits").v

\* a checkBarcodeAsync call that ended after decoding its body
BarcodeDecoded(c) == op[c] = "barcode" /\ Decoded(c)

VerdictValues == {Str(v) : v \in Verdict}

\* every hit carries a status of the enumeration
AllVerdicts(hits) ==
    \A i \in 1..Len(hits) : Get(hits[i], "status") \in VerdictValues

\* the severity order UNSAFE > CAUTION > SAFE
Severity(v) ==
    CASE v = "SAFE" -> 0 [] v = "CAUTION" -> 1 [] v = "UNSAFE" -> 2

\* the most severe verdict among the statuses of hits
MaxVerdict(hits) ==
    CHOOSE v \in Verdict :
        /\ \E i \in 1..Len(hits) : Get(hits[i], "status") = Str(v)
        /\ \A i \in 1..Len(hits) : Severity(Get(hits[i], "status").v) <= Severity(v)

\* the items a successful call hands to the screen: the returned array, and for
\* the text flow the array runTextCheck maps the hits to
ItemsOf(c) ==
    IF op[c] = "text" THEN TextItems(out[c].value).v ELSE out[c].value.v

NonEmptyString(x) == x.t = "string" /\ x.v # ""

----------------------------------------------------------------------------
(* C1 *)

\* C1: in checkBarcodeAsync, when overall_status is not a string and the verdict
\* is therefore derived from the hits, and every hit has a status of the
\* enumeration, the verdict of the product card is UNSAFE iff some hit is
\* UNSAFE, CAUTION iff no hit is UNSAFE and some hit is CAUTION, SAFE otherwise.
C1_DerivedVerdictIsMaximum ==
    \A c \in CallIds :
        ( /\ BarcodeDecoded(c) /\ Succeeded(c)
          /\ TypeOf(Get(JsonOf(c), "overall_status")) # "string"
          /\ AllVerdicts(HitsOf(c)) )
        => LET v == Get(out[c].value.v[1], "final_status")
               anyUnsafe == \E i \in 1..Len(HitsOf(c)) : StatusIs(HitsOf(c)[i], "UNSAFE")
               anyCaution == \E i \in 1..Len(HitsOf(c)) : StatusIs(HitsOf(c)[i], "CAUTION")
           IN /\ v \in VerdictValues
              /\ v = Str("UNSAFE") <=> anyUnsafe
              /\ v = Str("CAUTION") <=> (~anyUnsafe /\ anyCaution)
              /\ v = Str("SAFE") <=> (~anyUnsafe /\ ~anyCaution)

\* a product with a CAUTION hit followed by an UNSAFE hit and no overall_status
\* was rated UNSAFE
C1_Witness ==
    \E c \in CallIds :
        /\ BarcodeDecoded(c) /\ Succeeded(c)
        /\ Get(JsonOf(c), "overall_status") = Undef
        /\ Len(HitsOf(c)) = 2
        /\ StatusIs(HitsOf(c)[1], "CAUTION")
        /\ StatusIs(HitsOf(c)[2], "UNSAFE")
        /\ Get(out[c].value.v[1], "final_status") = Str("UNSAFE")

----------------------------------------------------------------------------
(* C2 *)

\* overall_status is a string naming a verdict (in any letter case, as the code
\* upper-cases it before it validates it)
ValidOverall(o) == o.t = "string" /\ ToUpperCase(o.v) \in Verdict

\* C2: for every successful checkBarcodeAsync call (on hits whose statuses are
\* verdicts), the verdict of the product card is the payload's overall_status
\* when that is a valid verdict, and in every other case (absent, or present but
\* not a valid verdict) the most severe verdict among the hits.
C2_VerdictIsOverallOrMaximum ==
    \A c \in CallIds :
        (BarcodeDecoded(c) /\ Succeeded(c) /\ AllVerdicts(HitsOf(c)))
        => LET o == Get(JsonOf(c), "overall_status")
           IN Get(out[c].value.v[1], "final_status") =
                 IF ValidOverall(o) THEN Str(ToUpperCase(o.v))
                 ELSE Str(MaxVerdict(HitsOf(c)))

----------------------------------------------------------------------------
(* C3 *)

\* C3: every item of a successful classifyImageAsync or checkBarcodeAsync call,
\* and every item the text flow maps the hits of resolveTextAsync to, has a
\* verdict of the enumeration and a non-empty label or name.
C3_EveryItemIsWellFormed ==
    \A c \in CallIds :
        (Succeeded(c) /\ op[c] \in {"image", "text", "barcode"})
        => \A i \in 1..Len(ItemsOf(c)) :
              /\ Get(ItemsOf(c)[i], "final_status") \in VerdictValues
              /\ \/ NonEmptyString(Get(ItemsOf(c)[i], "label"))
                 \/ NonEmptyString(Get(ItemsOf(c)[i], "name"))

----------------------------------------------------------------------------
(* C4 *)

\* the Error of the time-out: "Request timed out - please try again"
TimedOut(o) == ~o.ok /\ o.err.name = "Error" /\ o.err.message = Str(TimeoutMessage)

\* C4: when the deadline timer of a call fires while its request is in flight,
\* the controller of that call is aborted, and the next step of an aborted
\* in-flight call, whatever its entry operation, is to fail with the time-out
\* Error and with no other failure or result.
C4_DeadlineYieldsTimeout ==
    [][\A c \in CallIds :
          /\ (c \in timers /\ c \notin timers' /\ pc'[c] = "fetching")
                => c \in aborted'
          /\ (c \in aborted /\ pc[c] = "fetching")
                => \/ pc'[c] = "fetching" /\ c \in aborted'
                   \/ pc'[c] = "done" /\ TimedOut(out'[c])]_vars

\* two calls of different entry operations whose deadlines fired have both
\* failed with the time-out Error
C4_Witness ==
    \E c, d \in CallIds :
        /\ op[c] = "image" /\ op[d] = "tokens"
        /\ c \in aborted /\ d \in aborted
        /\ Failed(c) /\ Failed(d)
        /\ TimedOut(out[c]) /\ TimedOut(out[d])

----------------------------------------------------------------------------
(* C5 *)

\* the calls whose request (the fetch promise) has not settled yet
InFlight == {c \in CallIds : pc[c] = "fetching"}

\* C5 as stated: in every reachable state the pending deadline timers are
\* exactly the calls whose request has not settled yet.
C5_TimersAreExactlyInFlight ==
    timers = InFlight

\* C5 as amended: the pending deadline timers are exactly the calls whose
\* request has not settled yet and whose deadline has not fired; a timer is
\* never pending for a call whose request has settled.
C5_TimersAreInFlightNotFired ==
    timers = InFlight \ aborted

\* one call has been cancelled by its deadline and has ended, another has
\* resolved and is reading its body, and no timer is pending
C5_Witness ==
    \E c, d \in CallIds :
        /\ pc[c] = "done" /\ c \in aborted
        /\ pc[d] = "body"
        /\ timers = {}

----------------------------------------------------------------------------
(* C6 *)

\* the decoded body is an object with an array-valued hits field
HasHitsArray(j) == j.t = "object" /\ IsArray(Get(j, "hits"))

----------------------------------------------------------------------------
(* C7 *)

\* C7: a successful checkBarcodeAsync call on N >= 1 hits returns N + 1 items:
\* the first is the product card (isProduct true, label the barcode passed in),
\* no other item is marked as the product, and item i + 1 is made of hit i.
C7_AggregateThenHitsInOrder ==
    \A c \in CallIds :
        (BarcodeDecoded(c) /\ Succeeded(c))
        => LET items == out[c].value.v
               hits == HitsOf(c)
           IN /\ Len(hits) >= 1
              /\ Len(items) = Len(hits) + 1
              /\ Get(items[1], "isProduct") = Bool(TRUE)
              /\ Get(items[1], "label") = Str(arg[c])
              /\ \A i \in 1..Len(hits) :
                    /\ Get(items[i + 1], "isProduct") # Bool(TRUE)
                    /\ Get(items[i + 1], "label") = Get(hits[i], "token")
                    /\ Get(items[i + 1], "name") = Get(hits[i], "name")
                    /\ Get(items[i + 1], "final_status") = Get(hits[i], "status")

\* a lookup with two different hits returned three items
C7_Witness ==
    \E c \in CallIds :
        /\ BarcodeDecoded(c) /\ Succeeded(c)
        /\ Len(HitsOf(c)) = 2
        /\ HitsOf(c)[1] # HitsOf(c)[2]
        /\ Len(out[c].value.v) = 3

----------------------------------------------------------------------------
(* C8 *)

\* the message an error signal of the backend is reported with
SignalMessage(j, default) ==
    IF NonEmptyString(Get(j, "message")) THEN Get(j, "message") ELSE Str(default)

\* C8: whenever the barcode payload carries error = "barcode_not_found" the call
\* throws the not-found Error and returns nothing, whatever else the payload
\* holds; the message is the backend's when it is non-empty, the default text
\* otherwise.
C8_NotFoundAlwaysFails ==
    \A c \in CallIds :
        (BarcodeDecoded(c) /\ Get(JsonOf(c), "error") = Str("barcode_not_found"))
        => /\ Failed(c)
           /\ out[c].err.site = "barcode_not_found"
           /\ out[c].err.message = SignalMessage(JsonOf(c), NotFoundMessage)

\* a not-found payload that also carried a valid hit and a message failed with
\* that message
C8_Witness ==
    \E c \in CallIds :
        /\ BarcodeDecoded(c)
        /\ Get(JsonOf(c), "error") = Str("barcode_not_found")
        /\ HasHitsArray(JsonOf(c)) /\ Len(HitsOf(c)) = 1 /\ AllVerdicts(HitsOf(c))
        /\ NonEmptyString(Get(JsonOf(c), "message"))
        /\ Failed(c) /\ out[c].err.message = Get(JsonOf(c), "message")

----------------------------------------------------------------------------
(* C9 *)

\* the statements that throw the IncompleteData condition
IncompleteData == {"ingredients_missing", "no_hits"}

\* C9 as stated: a barcode payload with a valid but empty hits array always
\* fails with IncompleteData, and no successful call has an empty hits array.
C9_EmptyHitsIsIncompleteData ==
    \A c \in CallIds :
        /\ (BarcodeDecoded(c) /\ HasHitsArray(JsonOf(c)) /\ Len(HitsOf(c)) = 0)
              => (Failed(c) /\ out[c].err.site \in IncompleteData)
        /\ (BarcodeDecoded(c) /\ Succeeded(c)) => Len(HitsOf(c)) > 0

\* C9 as amended: a barcode payload with a valid but empty hits array and no
\* "barcode_not_found" signal always fails with IncompleteData (with the
\* no-match text when it carries no error signal at all), whatever its
\* overall_status; and no successful call has an empty hits array.
C9_EmptyHitsWithoutNotFoundIsIncompleteData ==
    \A c \in CallIds :
        /\ ( /\ BarcodeDecoded(c) /\ HasHitsArray(JsonOf(c)) /\ Len(HitsOf(c)) = 0
             /\ Get(JsonOf(c), "error") # Str("barcode_not_found") )
              => /\ Failed(c)
                 /\ out[c].err.site \in IncompleteData
                 /\ Get(JsonOf(c), "error") = Undef
                       => out[c].err.message = Str(NoHitsMessage)
        /\ (BarcodeDecoded(c) /\ Succeeded(c)) => Len(HitsOf(c)) > 0

\* a payload with no hit and overall_status UNSAFE failed with the no-match text
C9_Witness ==
    \E c \in CallIds :
        /\ BarcodeDecoded(c) /\ HasHitsArray(JsonOf(c)) /\ Len(HitsOf(c)) = 0
        /\ Get(JsonOf(c), "error") = Undef
        /\ Get(JsonOf(c), "overall_status") = Str("UNSAFE")
        /\ Failed(c) /\ out[c].err.message = Str(NoHitsMessage)

----------------------------------------------------------------------------
(* C10 *)

\* C10: a barcode payload with error = "ingredients_missing" fails with the
\* ingredients-missing Error (the backend's message or the default text) before
\* its hits are looked at: it never returns items and never fails on the shape,
\* whether hits is absent, malformed or a valid non-empty array.
C10_IngredientsMissingBeforeHits ==
    \A c \in CallIds :
        (BarcodeDecoded(c) /\ Get(JsonOf(c), "error") = Str("ingredients_missing"))
        => /\ Failed(c)
           /\ out[c].err.site = "ingredients_missing"
           /\ out[c].err.message = SignalMessage(JsonOf(c), IngredientsMissingMessage)
           /\ out[c].err.message # Str(BarcodeShapeMessage)

\* an ingredients-missing payload with a valid hit failed with the default text
C10_Witness ==
    \E c \in CallIds :
        /\ BarcodeDecoded(c)
        /\ Get(JsonOf(c), "error") = Str("ingredients_missing")
        /\ HasHitsArray(JsonOf(c)) /\ Len(HitsOf(c)) = 1 /\ AllVerdicts(HitsOf(c))
        /\ Failed(c) /\ out[c].err.message = Str(IngredientsMissingMessage)

----------------------------------------------------------------------------
(* C11 *)

\* the payload carries one of the two error signals of the backend
HasErrorSignal(j) ==
    Get(j, "error") \in {Str("barcode_not_found"), Str("ingredients_missing")}

\* C11: a decoded barcode body that carries no error signal and is not an
\* object with an array-valued hits field (the JSON value null, a number, a
\* string, an array, an object with hits absent or not an array) makes
\* checkBarcodeAsync fail with the shape Error of /barcode/resolve and with no
\* other failure.
C11_MalformedBarcodeBodyIsShapeMismatch ==
    \A c \in CallIds :
        (BarcodeDecoded(c) /\ ~HasErrorSignal(JsonOf(c)) /\ ~HasHitsArray(JsonOf(c)))
        => /\ Failed(c)
           /\ out[c].err.site = "shape"
           /\ out[c].err.message = Str(BarcodeShapeMessage)

----------------------------------------------------------------------------
(* C12 *)

\* C12: resolveTextAsync, on an ok response whose body decoded, throws the
\* shape Error of /ingredients/resolve for every body that is not an object
\* with an array-valued hits field (null, a scalar, a bare array, an object
\* with hits absent or not an array) and returns the payload itself, unchanged,
\* when hits is an array; it never returns anything in place of the Error.
C12_TextBodyIsPayloadOrShapeMismatch ==
    \A c \in CallIds :
        /\ (op[c] = "text" /\ Decoded(c)) =>
              IF HasHitsArray(JsonOf(c))
              THEN Succeeded(c) /\ out[c].value = JsonOf(c)
              ELSE /\ Failed(c)
                   /\ out[c].err.site = "shape"
                   /\ out[c].err.message = Str(TextShapeMessage)
        /\ (op[c] = "text" /\ Succeeded(c)) =>
              Decoded(c) /\ HasHitsArray(JsonOf(c))

\* a bare array, which is an object and is truthy, failed on its missing hits
C12_Witness ==
    \E c \in CallIds :
        /\ op[c] = "text" /\ Decoded(c)
        /\ IsArray(JsonOf(c))
        /\ Failed(c) /\ out[c].err.message = Str(TextShapeMessage)

----------------------------------------------------------------------------
(* C13 *)

\* a resolveTextAsync call that returned its payload
TextSucceeded(c) == op[c] = "text" /\ Succeeded(c)

----------------------------------------------------------------------------
(* C14 *)

\* C14: a text payload with an array of N hits puts exactly N items on the
\* screen, item i made of hit i (its token, name and status), and none of them
\* is marked as a product card.
C14_OneItemPerHitInOrder ==
    \A c \in CallIds :
        (op[c] = "text" /\ Decoded(c) /\ HasHitsArray(JsonOf(c)))
        => /\ Succeeded(c)
           /\ RunTextCheck(out[c]).error = Null
           /\ LET items == RunTextCheck(out[c]).results.v
                  hits == HitsOf(c)
              IN /\ Len(items) = Len(hits)
                 /\ \A i \in 1..Len(hits) :
                       /\ Get(items[i], "label") = Get(hits[i], "token")
                       /\ Get(items[i], "name") = Get(hits[i], "name")
                       /\ Get(items[i], "final_status") = Get(hits[i], "status")
                       /\ Get(items[i], "isProduct") # Bool(TRUE)

\* a payload with an UNSAFE hit followed by a SAFE hit gave two items
C14_Witness ==
    \E c \in CallIds :
        /\ op[c] = "text" /\ Decoded(c) /\ HasHitsArray(JsonOf(c))
        /\ Len(HitsOf(c)) = 2
        /\ StatusIs(HitsOf(c)[1], "UNSAFE") /\ StatusIs(HitsOf(c)[2], "SAFE")
        /\ Len(RunTextCheck(out[c]).results.v) = 2

----------------------------------------------------------------------------
(* C15 *)

\* a classifyImageAsync call that ended on a decoded {candidates: [...]} body
CandidatesDecoded(c) ==
    /\ op[c] = "image" /\ Decoded(c)
    /\ JsonOf(c).t = "object" /\ IsArray(Get(JsonOf(c), "candidates"))

CandidatesOf(c) == Get(JsonOf(c), "candidates").v

\* the verdict of candidate record r: status, or else default_status
CandidateVerdict(r) ==
    IF Get(r, "status").t \in {"undefined", "null"}
    THEN Get(r, "default_status") ELSE Get(r, "status")

HasValidVerdict(r) == CandidateVerdict(r) \in VerdictValues

\* C15: on a {candidates: [...]} body classifyImageAsync drops every candidate
\* whose verdict (status, or else default_status) is absent or not of the
\* enumeration; the other candidates yield one item each, in order, so the
\* result holds exactly the candidates with a valid verdict.
C15_InvalidCandidatesAreDropped ==
    \A c \in CallIds :
        CandidatesDecoded(c)
        => LET kept == SelectSeq(CandidatesOf(c), HasValidVerdict)
           IN /\ Succeeded(c)
              /\ Len(out[c].value.v) = Len(kept)
              /\ \A i \in 1..Len(kept) :
                    /\ Get(out[c].value.v[i], "final_status") = CandidateVerdict(kept[i])
                    /\ Get(out[c].value.v[i], "final_status") \in VerdictValues

----------------------------------------------------------------------------
(* C16 *)

\* field f of record r is present: neither undefined nor null
Present(r, f) == Get(r, f).t \notin {"undefined", "null"}

\* the first present field of record r among f1, f2, f3 (the last one as it is
\* when none is present)
FirstPresent(r, f1, f2, f3) ==
    IF Present(r, f1) THEN Get(r, f1)
    ELSE IF Present(r, f2) THEN Get(r, f2)
    ELSE Get(r, f3)

\* C16 as stated: candidate i of a {candidates: [...]} body yields item i, whose
\* name is the first present field in the order canonical_name, name, label and
\* whose verdict is status when present and default_status otherwise; a body
\* of one candidate {name, status} yields one item with that name and verdict.
C16_NameIsCanonicalThenNameThenLabel ==
    \A c \in CallIds :
        CandidatesDecoded(c)
        => /\ Succeeded(c)
           /\ Len(out[c].value.v) = Len(CandidatesOf(c))
           /\ \A i \in 1..Len(CandidatesOf(c)) :
                 /\ Get(out[c].value.v[i], "name") =
                       FirstPresent(CandidatesOf(c)[i], "canonical_name", "name", "label")
                 /\ Get(out[c].value.v[i], "final_status") =
                       CandidateVerdict(CandidatesOf(c)[i])

\* C16 as amended: the name of item i is the first present field of candidate i
\* in the order name, canonical_name, label; its verdict is status when present
\* and default_status otherwise; a body of one candidate {name, status} yields
\* one item with that name and verdict.
C16_NameIsNameThenCanonicalThenLabel ==
    \A c \in CallIds :
        CandidatesDecoded(c)
        => /\ Succeeded(c)
           /\ Len(out[c].value.v) = Len(CandidatesOf(c))
           /\ \A i \in 1..Len(CandidatesOf(c)) :
                 /\ Get(out[c].value.v[i], "name") =
                       FirstPresent(CandidatesOf(c)[i], "name", "canonical_name", "label")
                 /\ Get(out[c].value.v[i], "final_status") =
                       CandidateVerdict(CandidatesOf(c)[i])

\* {name: "Grapes", status: "UNSAFE"} followed by a candidate with a name, a
\* canonical_name, a label and a default_status only gave two items named
\* "Grapes", the first UNSAFE and the second CAUTION
C16_Witness ==
    \E c \in CallIds :
        /\ CandidatesDecoded(c) /\ Succeeded(c)
        /\ Len(CandidatesOf(c)) = 2
        /\ ~Present(CandidatesOf(c)[1], "canonical_name")
        /\ Present(CandidatesOf(c)[2], "canonical_name")
        /\ Present(CandidatesOf(c)[2], "name")
        /\ ~Present(CandidatesOf(c)[2], "status")
        /\ Len(out[c].value.v) = 2
        /\ Get(out[c].value.v[1], "name") = Str("Grapes")
        /\ Get(out[c].value.v[1], "final_status") = Str("UNSAFE")
        /\ Get(out[c].value.v[2], "name") = Str("Grapes")
        /\ Get(out[c].value.v[2], "final_status") = Str("CAUTION")

----------------------------------------------------------------------------
(* C17 *)

\* a classifyImageAsync call that ended on an ok response whose body did not
\* decode as JSON, or decoded to a value of neither accepted shape
UnrecognisedImageBody(c) ==
    /\ op[c] = "image" /\ pc[c] = "done"
    /\ res[c] # None /\ res[c].ok
    /\ body[c].ok =>
          /\ ~IsArray(JsonOf(c))
          /\ ~(JsonOf(c).t = "object" /\ IsArray(Get(JsonOf(c), "candidates")))

\* C17: on an ok response whose body is neither a bare array nor an object with
\* an array-valued candidates field ({}, null, a number, a string, an object
\* whose candidates is not an array) or does not decode as JSON at all,
\* classifyImageAsync returns the empty array and does not throw.
C17_UnrecognisedImageBodyIsEmpty ==
    \A c \in CallIds :
        UnrecognisedImageBody(c) => out[c] = Return(Arr(<<>>))

\* an image response whose body was not JSON ended with the empty array
C17_Witness ==
    \E c \in CallIds :
        /\ UnrecognisedImageBody(c)
        /\ body[c] = JsonSyntaxError
        /\ Succeeded(c) /\ Len(out[c].value.v) = 0

----------------------------------------------------------------------------
(* C18 *)

\* how a call with the entry operation, argument, deadline, response and body
\* of call c ends when it runs on its own
OutcomeAlone(c) ==
    IF op[c] = "tokens" /\ Len(arg[c]) = 0 THEN Return(Arr(<<>>))
    ELSE IF c \in aborted THEN CatchClause(AbortError)
    ELSE IF res[c] = None THEN CatchClause(NetworkFailure)
    ELSE CatchClause(TryBlock(op[c], arg[c], res[c], body[c]))

\* the step leaves call d as it is
Untouched(d) ==
    /\ pc'[d] = pc[d] /\ op'[d] = op[d] /\ arg'[d] = arg[d]
    /\ res'[d] = res[d] /\ body'[d] = body[d] /\ out'[d] = out[d]
    /\ (d \in timers') = (d \in timers)
    /\ (d \in aborted') = (d \in aborted)

\* C18: concurrent calls do not affect one another. Every step (a call
\* starting, a deadline firing, a fetch or a body settling) changes the
\* controller, the timer and the progress of one call only, so the deadline of
\* a call aborts that call alone; and under every interleaving a call that has
\* ended has the outcome it has alone on the same deadline, response and body.
C18_CallsAreIndependent ==
    /\ [](\A c \in CallIds : pc[c] = "done" => out[c] = OutcomeAlone(c))
    /\ [][\E c \in CallIds : \A d \in CallIds \ {c} : Untouched(d)]_vars

\* two requests are in flight at once; the deadline of one has fired, the
\* other still has its armed timer and a controller that is not aborted
C18_Witness ==
    \E c, d \in CallIds :
        /\ pc[c] = "fetching" /\ c \in aborted
        /\ pc[d] = "fetching" /\ d \notin aborted /\ d \in timers

----------------------------------------------------------------------------
(* C19 *)

\* the fetch promise of call c has settled
Settled(c) == pc[c] \in {"body", "done"}

\* C19: the deadline covers a call up to the settlement of its fetch promise
\* only. A call whose response has arrived has no armed timer and a controller
\* that is not aborted, and does not end with the time-out Error; and no step
\* aborts the controller of a call whose fetch promise has settled, however
\* many steps of other calls go by before its body is read.
C19_NoAbortAfterSettlement ==
    /\ [](\A c \in CallIds :
             res[c] # None =>
                 /\ c \notin timers
                 /\ c \notin aborted
                 /\ pc[c] = "done" => ~TimedOut(out[c]))
    /\ [][\A c \in CallIds :
             (Settled(c) /\ c \notin aborted /\ pc'[c] # "fetching")
                 => c \notin aborted']_vars

\* the response of one call arrived and its body is still being read, with no
\* timer armed, while the deadline of another call has fired and ended that call
C19_Witness ==
    \E c, d \in CallIds :
        /\ pc[c] = "body" /\ res[c].ok /\ c \notin timers /\ c \notin aborted
        /\ pc[d] = "done" /\ d \in aborted /\ TimedOut(out[d])

----------------------------------------------------------------------------
(* C20 *)

\* a text or barcode call that returned, and so has an array of hits
HitsMapped(c) == op[c] \in {"text", "barcode"} /\ Decoded(c) /\ Succeeded(c)

\* the item the text flow makes of hit i of call c: the one on the screen when
\* c is a text check
TextFlowItem(c, i) ==
    IF op[c] = "text" THEN RunTextCheck(out[c]).results.v[i]
    ELSE TextItem(HitsOf(c)[i])

\* the ingredient item checkBarcodeAsync makes of hit i of call c: the one it
\* returned, after the product card, when c is a barcode lookup
BarcodeFlowItem(c, i) ==
    IF op[c] = "barcode" THEN out[c].value.v[i + 1]
    ELSE IngredientItem(HitsOf(c)[i])

\* C20 as stated: for every hit, with sources, notes or db_score null or absent
\* too, the item of the text flow equals the ingredient item of the barcode
\* flow.
C20_TextAndBarcodeItemsAreEqual ==
    \A c \in CallIds :
        HitsMapped(c) =>
            \A i \in 1..Len(HitsOf(c)) : TextFlowItem(c, i) = BarcodeFlowItem(c, i)

\* C20 as amended: for every hit the two items agree on label, name, verdict,
\* rationale and confidence (notes and db_score null or absent give undefined
\* in both); they agree on sources when the hit has sources, and for a hit
\* whose sources is null or absent the text flow gives the empty array and the
\* barcode flow gives undefined.
C20_ItemsAreEqualUpToAbsentSources ==
    \A c \in CallIds :
        HitsMapped(c) =>
            \A i \in 1..Len(HitsOf(c)) :
                LET h == HitsOf(c)[i]
                    t == TextFlowItem(c, i)
                    b == BarcodeFlowItem(c, i)
                IN /\ \A f \in {"label", "name", "final_status", "rationale", "det_conf"} :
                         Get(t, f) = Get(b, f)
                   /\ Get(b, "isProduct") # Bool(TRUE)
                   /\ IF Present(h, "sources")
                      THEN /\ Get(t, "sources") = Get(h, "sources")
                           /\ Get(b, "sources") = Get(h, "sources")
                      ELSE /\ Get(t, "sources") = Arr(<<>>)
                           /\ Get(b, "sources") = Undef

\* a barcode lookup returned the item of a hit whose db_score, notes and
\* sources are null: no confidence, no rationale, no sources
C20_Witness ==
    \E c \in CallIds :
        /\ op[c] = "barcode" /\ HitsMapped(c)
        /\ Len(HitsOf(c)) = 1
        /\ Get(HitsOf(c)[1], "db_score") = Null
        /\ Get(HitsOf(c)[1], "notes") = Null
        /\ Get(HitsOf(c)[1], "sources") = Null
        /\ Get(BarcodeFlowItem(c, 1), "det_conf") = Undef
        /\ Get(BarcodeFlowItem(c, 1), "rationale") = Undef
        /\ Get(BarcodeFlowItem(c, 1), "sources") = Undef
        /\ Get(TextFlowItem(c, 1), "sources") = Arr(<<>>)

----------------------------------------------------------------------------
(* C21 *)

\* the entry operations a handler of the screen started that have not settled
Outstanding == {c \in AppCalls : task[c] = "lookup" /\ pc[c] \in {"fetching", "body"}}

\* C21: under every interleaving of the handlers of the screen, with a scan
\* callback that fires again while an earlier lookup is outstanding too, the
\* loading flag is true in every state in which an entry operation started by
\* a handler has not settled yet.
C21_LoadingWhileLookupOutstanding ==
    Outstanding # {} => loading = TRUE

----------------------------------------------------------------------------
(* C22 *)

\* C22: under every interleaving of the handlers of the screen the error
\* message and the result list are never both set: in every reachable state
\* error is null or results is null, also when two lookups overlap and one
\* fails while the other succeeds.
C22_ErrorAndResultsExclusive ==
    error = Null \/ results = Null

====
